---------------------------- MODULE Spec2Model ----------------------------
(***************************************************************************)
(* Funding-rate arbitrage engine (src/arbitrage_engine.py) together with   *)
(* its trading-rules manager (src/trading_rules.py).                       *)
(*                                                                         *)
(* Units.  Python floats are modelled as exact fixed-point integers:       *)
(*   quantity   1 = 0.0001 coin          (QtyScale units per coin)         *)
(*   price      1 = 1 USDT                                                 *)
(*   amount     1 = 0.01 USDT            (total_amount, order amounts)     *)
(*   notional   qty * price, 1 = 0.0001 USDT                               *)
(*   P&L        1 = 0.000000005 USDT     (PnlPerNotional per notional unit)*)
(*   rate       1 = 0.0001               (funding rate)                    *)
(*   time       seconds                                                    *)
(* The exchange is the environment: every response is an input of the      *)
(* handler that reads it.  A handler is one atomic step (the engine is     *)
(* single-threaded and synchronous); the requests it sent are recorded in  *)
(* `calls`, its arguments and return value in `last`.                      *)
(***************************************************************************)
EXTENDS Integers, Sequences, FiniteSets, TLC

VARIABLES
    positions,          \* ArbitrageEngine.positions: symbol -> Position
    closed_positions,   \* ArbitrageEngine.closed_positions: list of ClosedPosition
    rules_cache,        \* TradingRulesManager.rules_cache: symbol -> rules
    cache_time,         \* TradingRulesManager.cache_time
    demo,               \* BybitClient.demo (fixed at construction)
    now,                \* time.time()
    calls,              \* requests sent to the exchange by the last handler, in order
    last,               \* the last handler call: its arguments, the prices it read, what it returned
    refreshed,          \* the live map as get_positions_summary left it inside the last handler
    opportunities       \* ArbitrageEngine.opportunities: the list the last scan found

vars == <<positions, closed_positions, rules_cache, cache_time, demo, now, calls, last, refreshed, opportunities>>

-----------------------------------------------------------------------------
(* Bounds of the model *)

\* longest closed-position history explored
MaxClosed == 1

-----------------------------------------------------------------------------
(* Fixed-point scales *)

RECURSIVE Pow10(_)
Pow10(n) == IF n = 0 THEN 1 ELSE 10 * Pow10(n - 1)

QtyScale == Pow10(4)
CentsPerUSDT == Pow10(2)
PnlPerNotional == 2 * Pow10(4)

(* Input domains *)

Symbols == {"SOLUSDT"}
\* total_amount values (cents), chosen so that total_amount / 2 / leverage is a
\* whole number of cents for every leverage drawn and so that the quantities
\* they buy are not all multiples of the quantity steps
Amounts == {480, 2532}
Leverages == {0, 1, 2, 3}
Prices == {100}
TimePoints == {0, 28800}

-----------------------------------------------------------------------------
(* Arithmetic helpers *)

Range(seq) == {seq[i] : i \in DOMAIN seq}
Abs(x) == IF x < 0 THEN -x ELSE x
Min(a, b) == IF a <= b THEN a ELSE b
Max(a, b) == IF a >= b THEN a ELSE b

\* Python round(): nearest integer to n/d, ties to the even one (d > 0)
PyRound(n, d) ==
    LET q == n \div d
        r == n % d
    IN  IF 2 * r < d THEN q
        ELSE IF 2 * r > d THEN q + 1
        ELSE IF q % 2 = 0 THEN q ELSE q + 1

\* round(x, ndigits) of a quantity x held in 0.0001-coin units
RoundQty(qty, ndigits) ==
    IF ndigits >= 4 THEN qty
    ELSE PyRound(qty, Pow10(4 - ndigits)) * Pow10(4 - ndigits)

\* A decimal string of the exchange ("0.001"): dec digits after the point, val the digits read as an integer
DecStr(val, dec) == [val |-> val, dec |-> dec]
\* float(s) in quantity units
DecToQty(s) == (s.val * QtyScale) \div Pow10(s.dec)
\* float(s) in cents
DecToCents(s) == (s.val * CentsPerUSDT) \div Pow10(s.dec)
\* len(s.split('.')[-1]) if '.' in s else 0
DecPlaces(s) == s.dec

-----------------------------------------------------------------------------
(* Optional values and exchange responses *)

Some(v) == [some |-> TRUE, v |-> v]
Nothing == [some |-> FALSE, v |-> 0]

\* a response of the transport: retCode 0 and a result list, or an error
\* (BybitClient._make_request returns retCode -1 on a transport failure)
Ok(list) == [retCode |-> 0, list |-> list]
Failed == [retCode |-> -1, list |-> <<>>]
\* "retCode == 0 and result.list is non-empty"
HasList(response) == response.retCode = 0 /\ Len(response.list) > 0

(* /v5/market/instruments-info payloads the model draws from *)
SpotInstrument ==
    [minOrderQty |-> DecStr(1, 4), maxOrderQty |-> DecStr(100, 0),
     basePrecision |-> DecStr(1, 4), minOrderAmt |-> DecStr(1, 0),
     maxOrderAmt |-> DecStr(100000, 0), tickSize |-> DecStr(1, 2),
     status |-> "Trading"]
LinearInstrument ==
    [minOrderQty |-> DecStr(1, 2), maxOrderQty |-> DecStr(1, 0),
     qtyStep |-> DecStr(1, 2), minNotionalValue |-> DecStr(5, 0),
     tickSize |-> DecStr(1, 2), maxLeverage |-> 2, status |-> "Trading"]
\* the request raised: the except branch of the caller runs
Raised == [retCode |-> -2, list |-> <<>>]
SpotInfoResponses == {Failed, Raised, Ok(<<>>), Ok(<<SpotInstrument>>)}
LinearInfoResponses == {Failed, Raised, Ok(<<>>), Ok(<<LinearInstrument>>)}

-----------------------------------------------------------------------------
(* TradingRulesManager *)

cache_duration == 3600

_get_default_rules ==
    [min_order_qty |-> 10, max_order_qty |-> 1000 * QtyScale, qty_step |-> 10,
     min_order_amt |-> 5 * CentsPerUSDT, max_order_amt |-> 100000 * CentsPerUSDT,
     price_precision |-> 2, qty_precision |-> 3, max_leverage |-> 5,
     status |-> "Trading"]

\* variant: an empty or failed answer yields rules without limits
_get_spot_rules_unguarded(response) ==
    IF HasList(response)
    THEN LET instrument == response.list[1]
         IN  [min_order_qty |-> DecToQty(instrument.minOrderQty),
              max_order_qty |-> DecToQty(instrument.maxOrderQty),
              qty_step |-> DecToQty(instrument.basePrecision),
              min_order_amt |-> DecToCents(instrument.minOrderAmt),
              max_order_amt |-> DecToCents(instrument.maxOrderAmt),
              price_precision |-> DecPlaces(instrument.tickSize),
              qty_precision |-> DecPlaces(instrument.basePrecision),
              status |-> instrument.status]
    ELSE [_get_default_rules EXCEPT !.min_order_qty = 0, !.min_order_amt = 0]

_get_spot_rules(response) ==
    IF HasList(response)
    THEN LET instrument == response.list[1]
         IN  [min_order_qty |-> DecToQty(instrument.minOrderQty),
              max_order_qty |-> DecToQty(instrument.maxOrderQty),
              qty_step |-> DecToQty(instrument.basePrecision),
              min_order_amt |-> DecToCents(instrument.minOrderAmt),
              max_order_amt |-> DecToCents(instrument.maxOrderAmt),
              price_precision |-> DecPlaces(instrument.tickSize),
              qty_precision |-> DecPlaces(instrument.basePrecision),
              status |-> instrument.status]
    ELSE _get_default_rules

_get_linear_rules(response) ==
    IF HasList(response)
    THEN LET instrument == response.list[1]
         IN  [min_order_qty |-> DecToQty(instrument.minOrderQty),
              max_order_qty |-> DecToQty(instrument.maxOrderQty),
              qty_step |-> DecToQty(instrument.qtyStep),
              min_order_amt |-> DecToCents(instrument.minNotionalValue),
              max_order_amt |-> DecToCents(instrument.maxOrderQty) * 100000,
              price_precision |-> DecPlaces(instrument.tickSize),
              qty_precision |-> DecPlaces(instrument.qtyStep),
              max_leverage |-> instrument.maxLeverage,
              status |-> instrument.status]
    ELSE _get_default_rules

\* a request as the transport sees it
Req(api, category, symbol, side, qty, orderId) ==
    [api |-> api, category |-> category, symbol |-> symbol, side |-> side,
     qty |-> qty, orderId |-> orderId]
InfoReq(category, symbol) == Req("get_instruments_info", category, symbol, "-", 0, "-")

_is_cache_valid(ctime, t) == t - ctime < cache_duration

\* get_trading_rules on a manager whose cache is (cache, ctime), at time t.
\* Returns the rules, the manager's new cache and the requests sent.
get_trading_rules(cache, ctime, t, symbol, force_refresh, spot_info, linear_info) ==
    IF ~force_refresh /\ _is_cache_valid(ctime, t) /\ symbol \in DOMAIN cache
    THEN [rules |-> cache[symbol], cache |-> cache, ctime |-> ctime, calls |-> <<>>]
    ELSE LET rules == [symbol |-> symbol,
                       spot |-> _get_spot_rules(spot_info),
                       linear |-> _get_linear_rules(linear_info),
                       last_updated |-> t]
         IN  [rules |-> rules,
              cache |-> [s \in DOMAIN cache \cup {symbol} |->
                            IF s = symbol THEN rules ELSE cache[s]],
              ctime |-> t,
              calls |-> <<InfoReq("spot", symbol), InfoReq("linear", symbol)>>]

\* the rules the manager holds for symbol (get_trading_rules on a valid cache entry)
CachedRules(cache, symbol) == cache[symbol]

\* 'ETH' in symbol / 'BTC' in symbol, over the configured pairs
estimated_price(symbol) ==
    IF symbol = "ETHUSDT" THEN 4500 ELSE IF symbol = "BTCUSDT" THEN 50000 ELSE 100

_get_demo_min_qty(symbol) ==
    IF symbol \in {"ADAUSDT", "XRPUSDT", "NEARUSDT"} THEN 10 ELSE 5

\* get_min_investment_amount, in cents (round(min_amount, 2))
get_min_investment_amount(rules, symbol, leverage, is_demo) ==
    IF is_demo
    THEN LET demo_min_amount == _get_demo_min_qty(symbol) * estimated_price(symbol)
             \* min_amount = demo_min_amount / (leverage / (leverage + 1)) * 1.2
         IN  PyRound(demo_min_amount * (leverage + 1) * 12 * CentsPerUSDT, 10 * leverage)
    ELSE LET spot_min == rules.spot.min_order_amt
             \* linear_min = min_order_amt / leverage, compared over the common denominator
             max_times_leverage == Max(spot_min * leverage, rules.linear.min_order_amt)
         IN  PyRound(max_times_leverage * 12, 10 * leverage)

OrderOk == [ok |-> TRUE, reason |-> "valid"]
OrderBad(reason) == [ok |-> FALSE, reason |-> reason]

\* variant: the order amount is checked before the quantity
validate_order_params_amount_first(rule, qty, price) ==
    IF qty * price < rule.min_order_amt * CentsPerUSDT THEN OrderBad("amount_below_min")
    ELSE IF qty * price > rule.max_order_amt * CentsPerUSDT THEN OrderBad("amount_above_max")
    ELSE IF qty < rule.min_order_qty THEN OrderBad("qty_below_min")
    ELSE IF qty > rule.max_order_qty THEN OrderBad("qty_above_max")
    ELSE IF rule.qty_step > 0 /\ qty % rule.qty_step /= 0 THEN OrderBad("qty_not_step_multiple")
    ELSE OrderOk

\* validate_order_params against one market's rule (rules[category])
validate_order_params(rule, qty, price) ==
    IF qty < rule.min_order_qty THEN OrderBad("qty_below_min")
    ELSE IF qty > rule.max_order_qty THEN OrderBad("qty_above_max")
    ELSE IF rule.qty_step > 0 /\ qty % rule.qty_step /= 0 THEN OrderBad("qty_not_step_multiple")
    ELSE IF qty * price < rule.min_order_amt * CentsPerUSDT THEN OrderBad("amount_below_min")
    ELSE IF qty * price > rule.max_order_amt * CentsPerUSDT THEN OrderBad("amount_above_max")
    ELSE OrderOk

\* get_trading_tips (the advisory strings are left out)
get_trading_tips(rules, symbol, is_demo) ==
    [symbol |-> symbol,
     min_investment |-> get_min_investment_amount(rules, symbol, 1, is_demo),
     spot_rules |-> [min_qty |-> rules.spot.min_order_qty,
                     min_amount |-> rules.spot.min_order_amt,
                     qty_precision |-> rules.spot.qty_precision,
                     price_precision |-> rules.spot.price_precision,
                     qty_step |-> rules.spot.qty_step],
     linear_rules |-> [min_qty |-> rules.linear.min_order_qty,
                       min_amount |-> rules.linear.min_order_amt,
                       max_leverage |-> rules.linear.max_leverage,
                       qty_precision |-> rules.linear.qty_precision,
                       price_precision |-> rules.linear.price_precision,
                       qty_step |-> rules.linear.qty_step]]

\* the metadata responses a handler of the engine can consume: none when the
\* cache answers, else the endpoint is down or up for both markets
InfoInputs(symbol) ==
    IF _is_cache_valid(cache_time, now) /\ symbol \in DOMAIN rules_cache
    THEN {<<Failed, Failed>>}
    ELSE {<<Failed, Failed>>, <<Ok(<<SpotInstrument>>), Ok(<<LinearInstrument>>)>>}

-----------------------------------------------------------------------------
(* Market data accessor *)

Ticker(price, funding) == [lastPrice |-> price, fundingRate |-> funding]
PriceResponses == {Failed} \cup {Ok(<<Ticker(p, Nothing)>>) : p \in Prices}
\* at entry the market may also quote a price at which the amounts buy less
\* than half a quantity step; closing prices stay in Prices, where the P&L of
\* the modelled sizes fits the 32-bit integers of TLC
SpikePrice == Pow10(6)
EntryPriceResponses == PriceResponses \cup {Ok(<<Ticker(SpikePrice, Nothing)>>)}
TickerReq(category, symbol) == Req("get_tickers", category, symbol, "-", 0, "-")

get_spot_price(response) ==
    IF HasList(response) THEN Some(response.list[1].lastPrice) ELSE Nothing
get_futures_price(response) ==
    IF HasList(response) THEN Some(response.list[1].lastPrice) ELSE Nothing
\* Python truthiness of an Optional[float]: None and 0.0 are false
Falsy(opt) == ~opt.some \/ opt.v = 0

-----------------------------------------------------------------------------
(* Data structures of the engine *)

NoId == "None"
NoPositions == [s \in {} |-> 0]

Position(symbol, spot_qty, futures_qty, spot_avg_price, futures_avg_price, unrealized_pnl, funding_paid, entry_time, leverage, total_investment, spot_investment, futures_investment) ==
    [symbol |-> symbol, spot_qty |-> spot_qty, futures_qty |-> futures_qty,
     spot_avg_price |-> spot_avg_price, futures_avg_price |-> futures_avg_price,
     unrealized_pnl |-> unrealized_pnl, funding_paid |-> funding_paid,
     entry_time |-> entry_time, leverage |-> leverage,
     total_investment |-> total_investment, spot_investment |-> spot_investment,
     futures_investment |-> futures_investment]

TradingResult(success, message, spot_order_id, futures_order_id, spot_qty, futures_qty, spot_price, futures_price, total_cost) ==
    [success |-> success, message |-> message, spot_order_id |-> spot_order_id,
     futures_order_id |-> futures_order_id, spot_qty |-> spot_qty,
     futures_qty |-> futures_qty, spot_price |-> spot_price,
     futures_price |-> futures_price, total_cost |-> total_cost]
\* TradingResult(False, message)
FailedResult(message) == TradingResult(FALSE, message, NoId, NoId, 0, 0, 0, 0, 0)

\* /v5/order/create responses: an error, or retCode 0 with or without an orderId
OrderAccepted(id) == [retCode |-> 0, orderId |-> id]
OrderRejected == [retCode |-> 10001, orderId |-> NoId]
OrderResponses(id) == {OrderRejected, OrderAccepted(id), OrderAccepted(NoId)}
PlainResponses == {Failed, Ok(<<>>)}
\* a body that is not a JSON object: response.json() or the first .get() raises
\* in the handler that reads it
OrderRaised == [retCode |-> -2, orderId |-> NoId]
Raises(response) == response.retCode = -2
\* the raising answers the exchange may give, when it gives any
RaisedOrders(raising) == IF raising THEN {OrderRaised} ELSE {}
RaisedAnswers(raising) == IF raising THEN {Raised} ELSE {}

PlaceOrderReq(symbol, side, qty, category) == Req("place_order", category, symbol, side, qty, "-")
SetLeverageReq(symbol, leverage) == Req("set_leverage", "linear", symbol, "-", leverage, "-")
CancelOrderReq(symbol, order_id) == Req("cancel_order", "spot", symbol, "-", 0, order_id)

\* no call is in progress and the caller holds no unread result
Idle == [op |-> "idle"]

\* variant: a handler that appends nothing drops the oldest entry of the history
Return_truncating(pos, closed, rm, reqs, call, refr) ==
    /\ positions' = pos
    /\ closed_positions' = IF closed = closed_positions /\ closed /= <<>>
                           THEN Tail(closed) ELSE closed
    /\ rules_cache' = rm.cache
    /\ cache_time' = rm.ctime
    /\ calls' = reqs
    /\ last' = call
    /\ refreshed' = refr
    /\ UNCHANGED <<demo, now, opportunities>>

\* what a handler leaves behind
Return(pos, closed, rm, reqs, call, refr) ==
    /\ positions' = pos
    /\ closed_positions' = closed
    /\ rules_cache' = rm.cache
    /\ cache_time' = rm.ctime
    /\ calls' = reqs
    /\ last' = call
    /\ refreshed' = refr
    /\ UNCHANGED <<demo, now, opportunities>>

-----------------------------------------------------------------------------
(* ArbitrageEngine.one_click_arbitrage *)

calculate_capital_allocation(total_amount, leverage) ==
    LET spot_amount == total_amount \div 2
        futures_amount == spot_amount \div leverage
    IN  <<spot_amount, futures_amount>>

\* qty = amount / price; round(qty / step) * step; round(qty, precision)
QuantizedQty(amount, price, step, precision) ==
    RoundQty(PyRound(amount * (QtyScale \div CentsPerUSDT), price * step) * step, precision)

\* the answer to an order request as the handler saw it, or that none was sent
Reply(result) == [sent |-> TRUE, retCode |-> result.retCode, orderId |-> result.orderId]
NoReply == [sent |-> FALSE, retCode |-> 0, orderId |-> NoId]

EnterCall(symbol, total_amount, leverage, spot_price, futures_price, spot_result, futures_result, ret) ==
    [op |-> "enter", symbol |-> symbol, total_amount |-> total_amount,
     leverage |-> leverage, spot_price |-> spot_price,
     futures_price |-> futures_price, spot_result |-> spot_result,
     futures_result |-> futures_result, ret |-> ret]

\* variant: the upper bound of the leverage is not checked
CheckArguments_no_maximum(tips, total_amount, leverage) ==
    IF leverage < 1
    THEN "leverage_out_of_range"
    ELSE IF total_amount < tips.min_investment
    THEN "amount_below_min_investment"
    ELSE "ok"

\* the checks on the arguments, made before any price is read
CheckArguments(tips, total_amount, leverage) ==
    IF leverage < 1 \/ leverage > tips.linear_rules.max_leverage
    THEN "leverage_out_of_range"
    ELSE IF total_amount < tips.min_investment
    THEN "amount_below_min_investment"
    ELSE "ok"

\* variant: the two orders are not validated against the rules
CheckOrders_unvalidated(rules, spot_qty, futures_qty, spot_price, futures_price) ==
    IF spot_qty <= 0 \/ futures_qty <= 0 THEN "invalid_quantity" ELSE "ok"

\* the checks on the computed quantities, made before any order is sent
CheckOrders(rules, spot_qty, futures_qty, spot_price, futures_price) ==
    IF spot_qty <= 0 \/ futures_qty <= 0
    THEN "invalid_quantity"
    ELSE IF ~validate_order_params(rules.spot, spot_qty, spot_price).ok
    THEN "spot_order_invalid"
    ELSE IF ~validate_order_params(rules.linear, futures_qty, futures_price).ok
    THEN "futures_order_invalid"
    ELSE "ok"

\* variant: the answer to the spot buy is not looked at
SpotBuyAccepted_unchecked(spot_result) == TRUE
\* spot_result.get("retCode") != 0 leaves the handler
SpotBuyAccepted(spot_result) == spot_result.retCode = 0
\* futures_result.get("retCode") != 0 unwinds and leaves the handler
FuturesSellAccepted(futures_result) == futures_result.retCode = 0

\* variant: the spot order is never cancelled
CancelRequests_never(symbol, spot_order_id) == <<>>
\* if spot_order_id: self.client.cancel_order(symbol, spot_order_id, "spot")
CancelRequests(symbol, spot_order_id) ==
    IF spot_order_id /= NoId THEN <<CancelOrderReq(symbol, spot_order_id)>> ELSE <<>>

\* the part of one_click_arbitrage after all checks passed: the three requests
PlaceEntryOrders(symbol, total_amount, leverage, rm, reqs, spot_amount, futures_amount, spot_qty, futures_qty, spot_price, futures_price, raising) ==
    LET call(spot_result, futures_result, ret) ==
            EnterCall(symbol, total_amount, leverage, Some(spot_price),
                      Some(futures_price), spot_result, futures_result, ret)
        spot_req == PlaceOrderReq(symbol, "Buy", spot_amount, "spot")
        leverage_req == SetLeverageReq(symbol, leverage)
        futures_req == PlaceOrderReq(symbol, "Sell", futures_qty, "linear")
        \* except Exception as e: return TradingResult(False, ...)
        raised(sent, spot_result, futures_result) ==
            Return(positions, closed_positions, rm, sent,
                   call(spot_result, futures_result, FailedResult("exception")),
                   NoPositions)
    IN  \E spot_result \in OrderResponses("spot-1") \cup RaisedOrders(raising) :
          IF Raises(spot_result)
          THEN raised(reqs \o <<spot_req>>, Reply(spot_result), NoReply)
          ELSE IF ~SpotBuyAccepted(spot_result)
          THEN Return(positions, closed_positions, rm, reqs \o <<spot_req>>,
                      call(Reply(spot_result), NoReply, FailedResult("spot_buy_failed")),
                      NoPositions)
          ELSE
          \E leverage_result \in PlainResponses \cup RaisedAnswers(raising),
             futures_result \in {OrderRejected, OrderAccepted("linear-1")}
                                   \cup RaisedOrders(raising),
             cancel_result \in {Failed} \cup RaisedAnswers(raising) :
            LET spot_order_id == spot_result.orderId
                sent == reqs \o <<spot_req, leverage_req, futures_req>>
            IN  IF Raises(leverage_result)
                THEN raised(reqs \o <<spot_req, leverage_req>>, Reply(spot_result), NoReply)
                ELSE IF Raises(futures_result)
                THEN raised(sent, Reply(spot_result), Reply(futures_result))
                ELSE IF ~FuturesSellAccepted(futures_result)
                THEN Return(positions, closed_positions, rm,
                            sent \o CancelRequests(symbol, spot_order_id),
                            call(Reply(spot_result), Reply(futures_result),
                                 IF CancelRequests(symbol, spot_order_id) /= <<>>
                                    /\ Raises(cancel_result)
                                 THEN FailedResult("exception")
                                 ELSE FailedResult("futures_sell_failed")),
                            NoPositions)
                ELSE LET position == Position(symbol, spot_qty, futures_qty, spot_price,
                                              futures_price, 0, 0, now, leverage,
                                              total_amount, spot_amount, futures_amount)
                     IN  Return([s \in DOMAIN positions \cup {symbol} |->
                                    IF s = symbol THEN position ELSE positions[s]],
                                closed_positions, rm, sent,
                                call(Reply(spot_result), Reply(futures_result),
                                     TradingResult(TRUE, "entered", spot_order_id,
                                                   futures_result.orderId, spot_qty,
                                                   futures_qty, spot_price, futures_price,
                                                   total_amount)),
                                NoPositions)

one_click_arbitrage(symbol, total_amount, leverage, raising) ==
    /\ last = Idle
    /\ \E info \in InfoInputs(symbol)
                    \cup {<<r, r>> : r \in RaisedAnswers(raising)} :
      LET got == get_trading_rules(rules_cache, cache_time, now, symbol, FALSE,
                                   info[1], info[2])
          rm == [cache |-> got.cache, ctime |-> got.ctime]
          tips == get_trading_tips(got.rules, symbol, demo)
          arguments == CheckArguments(tips, total_amount, leverage)
          reject(reqs, sp, fp, message) ==
              Return(positions, closed_positions, rm, reqs,
                     EnterCall(symbol, total_amount, leverage, sp, fp, NoReply, NoReply,
                               FailedResult(message)), NoPositions)
      IN  IF arguments /= "ok"
          THEN reject(got.calls, Nothing, Nothing, arguments)
          ELSE
          \E spot_ticker \in EntryPriceResponses \cup RaisedAnswers(raising),
             linear_ticker \in EntryPriceResponses \cup RaisedAnswers(raising) :
            LET alloc == calculate_capital_allocation(total_amount, leverage)
                spot_amount == alloc[1]
                futures_amount == alloc[2]
                spot_price == get_spot_price(spot_ticker)
                futures_price == get_futures_price(linear_ticker)
                reqs == got.calls \o <<TickerReq("spot", symbol), TickerReq("linear", symbol)>>
                spot_qty == QuantizedQty(spot_amount, spot_price.v,
                                         tips.spot_rules.qty_step,
                                         tips.spot_rules.qty_precision)
                futures_qty == QuantizedQty(futures_amount, futures_price.v,
                                            tips.linear_rules.qty_step,
                                            tips.linear_rules.qty_precision)
                rules == CachedRules(rm.cache, symbol)
                orders == CheckOrders(rules, spot_qty, futures_qty,
                                      spot_price.v, futures_price.v)
            IN  IF Falsy(spot_price) \/ Falsy(futures_price)
                THEN reject(reqs, spot_price, futures_price, "price_unavailable")
                ELSE IF orders /= "ok"
                THEN reject(reqs, spot_price, futures_price, orders)
                ELSE PlaceEntryOrders(symbol, total_amount, leverage, rm, reqs,
                                      spot_amount, futures_amount, spot_qty, futures_qty,
                                      spot_price.v, futures_price.v, raising)

\* enter(symbol, total_amount, leverage) answered by well-formed responses
Enter(symbol, total_amount, leverage) ==
    one_click_arbitrage(symbol, total_amount, leverage, FALSE)

-----------------------------------------------------------------------------
(* ArbitrageEngine.get_positions_summary: the ledger refresh *)

\* /v5/position/list entries and /v5/account/wallet-balance coins the model draws from
PositionData(symbol, size, side, avgPrice, unrealisedPnl) ==
    [symbol |-> symbol, size |-> size, side |-> side, avgPrice |-> avgPrice,
     unrealisedPnl |-> unrealisedPnl]
Coin(coin, walletBalance) == [coin |-> coin, walletBalance |-> walletBalance]

BaseCoin(symbol) == IF symbol = "SOLUSDT" THEN "SOL" ELSE "ETH"
\* f"{coin_name}USDT"
SymbolOfCoin(coin) ==
    IF coin = "SOL" THEN "SOLUSDT" ELSE IF coin = "ETH" THEN "ETHUSDT" ELSE "USDTUSDT"

PositionsReq == Req("get_positions", "linear", "-", "-", 0, "-")
BalanceReq == Req("get_account_balance", "UNIFIED", "-", "-", 0, "-")

\* variant: the size is stored without the sign of the side
SignedSize_unsigned(size, side) == size

SignedSize(size, side) == IF side = "Buy" THEN size ELSE -size

\* one pass of the loop over the futures positions the exchange reported
RECURSIVE MergeFutures(_, _, _, _)
MergeFutures(local, actual, list, t) ==
    IF list = <<>> THEN actual
    ELSE LET position_data == Head(list)
             symbol == position_data.symbol
             size == position_data.size
             pos == IF symbol \in DOMAIN local
                    THEN [local[symbol] EXCEPT
                            !.futures_qty = SignedSize(size, position_data.side),
                            !.futures_avg_price = position_data.avgPrice,
                            !.unrealized_pnl = position_data.unrealisedPnl]
                    ELSE Position(symbol, 0, SignedSize(size, position_data.side), 0,
                                  position_data.avgPrice, position_data.unrealisedPnl,
                                  0, t, 1, 0, 0, 0)
             merged == IF size > 0
                       THEN [s \in DOMAIN actual \cup {symbol} |->
                                IF s = symbol THEN pos ELSE actual[s]]
                       ELSE actual
         IN  MergeFutures(local, merged, Tail(list), t)

\* one pass of the loop over the coins of the wallet
RECURSIVE MergeBalances(_, _, _)
MergeBalances(local, actual, coins) ==
    IF coins = <<>> THEN actual
    ELSE LET coin == Head(coins)
             balance == coin.walletBalance
             symbol == SymbolOfCoin(coin.coin)
             merged ==
                 IF coin.coin /= "USDT" /\ balance > 0
                 THEN IF symbol \in DOMAIN actual
                      THEN [actual EXCEPT ![symbol].spot_qty = balance]
                      ELSE IF symbol \in DOMAIN local
                      THEN [s \in DOMAIN actual \cup {symbol} |->
                               IF s = symbol
                               THEN [local[symbol] EXCEPT !.spot_qty = balance]
                               ELSE actual[s]]
                      ELSE actual
                 ELSE actual
         IN  MergeBalances(local, merged, Tail(coins))

\* variant: every record of the refreshed map gets the time of the refresh
get_positions_summary_restamping(local, linear_result, balance_result, t) ==
    LET after_futures == IF linear_result.retCode = 0
                         THEN MergeFutures(local, NoPositions, linear_result.list, t)
                         ELSE NoPositions
        actual == IF balance_result.retCode = 0
                  THEN MergeBalances(local, after_futures, balance_result.list)
                  ELSE after_futures
    IN  [s \in DOMAIN actual |-> [actual[s] EXCEPT !.entry_time = t]]

\* self.positions after get_positions_summary
get_positions_summary(local, linear_result, balance_result, t) ==
    LET after_futures == IF linear_result.retCode = 0
                         THEN MergeFutures(local, NoPositions, linear_result.list, t)
                         ELSE NoPositions
    IN  IF balance_result.retCode = 0
        THEN MergeBalances(local, after_futures, balance_result.list)
        ELSE after_futures

\* exchange answers the model draws from: <<size, side>> of a reported futures
\* position, and the wallet balance of the base coin
ReportedSizes == {<<0, "Sell">>, <<600, "Sell">>, <<600, "Buy">>}
Balances == {0, 606}
PositionLists(symbol) ==
    {<<>>} \cup {<<PositionData(symbol, r[1], r[2], 100, 25)>> : r \in ReportedSizes}
PositionsResponses(symbol) == {Failed} \cup {Ok(l) : l \in PositionLists(symbol)}
CoinLists(symbol) ==
    {<<Coin("USDT", 1000), Coin(BaseCoin(symbol), balance)>> : balance \in Balances}
BalanceResponses(symbol) == {Failed} \cup {Ok(l) : l \in CoinLists(symbol)}

\* sum(f[s] for s in S)
RECURSIVE SumOver(_, _)
SumOver(f, S) ==
    IF S = {} THEN 0
    ELSE LET s == CHOOSE x \in S : TRUE IN f[s] + SumOver(f, S \ {s})

PositionValue(pos) ==
    pos.spot_qty * pos.spot_avg_price + Abs(pos.futures_qty) * pos.futures_avg_price

\* the dictionary get_positions_summary returns
PositionsSummary(actual_positions) ==
    [total_positions |-> Cardinality(DOMAIN actual_positions),
     total_value |->
         SumOver([s \in DOMAIN actual_positions |-> PositionValue(actual_positions[s])],
                 DOMAIN actual_positions),
     total_unrealized_pnl |->
         SumOver([s \in DOMAIN actual_positions |-> actual_positions[s].unrealized_pnl],
                 DOMAIN actual_positions),
     total_funding_paid |->
         SumOver([s \in DOMAIN actual_positions |-> actual_positions[s].funding_paid],
                 DOMAIN actual_positions),
     positions |-> actual_positions]

\* positions_summary() called by the dashboard
Refresh ==
    /\ last = Idle
    /\ \E s \in Symbols :
       \E linear_result \in PositionsResponses(s), balance_result \in BalanceResponses(s) :
         LET actual_positions == get_positions_summary(positions, linear_result,
                                                       balance_result, now)
         IN  Return(actual_positions, closed_positions,
                    [cache |-> rules_cache, ctime |-> cache_time],
                    <<PositionsReq, BalanceReq>>,
                    [op |-> "positions_summary", linear_result |-> linear_result,
                     balance_result |-> balance_result,
                     ret |-> PositionsSummary(actual_positions)],
                    actual_positions)

-----------------------------------------------------------------------------
(* ArbitrageEngine.calculate_funding_income and close_position *)

\* fee rates per RateScale, funding settles every FundingPeriod seconds
RateScale == Pow10(5)
SPOT_FEE_RATE == 100
FUTURES_FEE_RATE == 55
FundingPeriod == 8 * 3600
FundingRates == {3}
FundingResponses == {Failed} \cup {Ok(<<Ticker(100, Some(r))>>) : r \in FundingRates}

\* notional * rate, in P&L units
Fee(notional, rate) == notional * ((rate * PnlPerNotional) \div RateScale)

get_funding_rate(response) ==
    IF HasList(response) /\ response.list[1].fundingRate.some
    THEN Some(response.list[1].fundingRate.v)
    ELSE Nothing

\* variant: the income is computed from the futures quantity the close has zeroed
calculate_funding_income_after_zeroing(position, funding_rate, t) ==
    IF Falsy(funding_rate) THEN 0
    ELSE LET funding_periods == (t - position.entry_time) \div FundingPeriod
             futures_value == 0 * position.futures_avg_price
         IN  IF funding_periods <= 0 THEN 0
             ELSE futures_value * funding_rate.v * funding_periods
                    * (PnlPerNotional \div Pow10(4))

\* in P&L units; the funding rate is in 1/10000
calculate_funding_income(position, funding_rate, t) ==
    IF Falsy(funding_rate) THEN 0
    ELSE LET funding_periods == (t - position.entry_time) \div FundingPeriod
             futures_value == Abs(position.futures_qty) * position.futures_avg_price
         IN  IF funding_periods <= 0 THEN 0
             ELSE futures_value * funding_rate.v * funding_periods
                    * (PnlPerNotional \div Pow10(4))

ClosedPosition(symbol, spot_qty, futures_qty, spot_avg_price, futures_avg_price, close_spot_qty, close_futures_qty, close_spot_price, close_futures_price, total_pnl, entry_time, close_time, leverage, total_investment, spot_investment, futures_investment, funding_paid) ==
    [symbol |-> symbol, spot_qty |-> spot_qty, futures_qty |-> futures_qty,
     spot_avg_price |-> spot_avg_price, futures_avg_price |-> futures_avg_price,
     close_spot_qty |-> close_spot_qty, close_futures_qty |-> close_futures_qty,
     close_spot_price |-> close_spot_price, close_futures_price |-> close_futures_price,
     total_pnl |-> total_pnl, entry_time |-> entry_time, close_time |-> close_time,
     leverage |-> leverage, total_investment |-> total_investment,
     spot_investment |-> spot_investment, futures_investment |-> futures_investment,
     funding_paid |-> funding_paid]

\* close_spot_qty = min(position.spot_qty, abs(position.futures_qty))
CloseSpotQty(position) == Min(position.spot_qty, Abs(position.futures_qty))
\* close_futures_qty = abs(position.futures_qty)
CloseFuturesQty(position) == Abs(position.futures_qty)

\* variant: the fees of the futures leg are not charged
TotalPnl_without_futures_fees(position, close_spot_qty, spot_price, futures_price, funding_income) ==
    LET spot_gross_pnl == (spot_price - position.spot_avg_price) * close_spot_qty
                            * PnlPerNotional
        spot_buy_amount == position.spot_avg_price * close_spot_qty
        spot_sell_amount == spot_price * close_spot_qty
        spot_fees == Fee(spot_buy_amount + spot_sell_amount, SPOT_FEE_RATE)
        futures_gross_pnl == (position.futures_avg_price - futures_price)
                               * Abs(position.futures_qty) * PnlPerNotional
    IN  (spot_gross_pnl - spot_fees) + futures_gross_pnl + funding_income

\* total_pnl = spot_pnl + futures_pnl + funding_income
TotalPnl(position, close_spot_qty, spot_price, futures_price, funding_income) ==
    LET spot_gross_pnl == (spot_price - position.spot_avg_price) * close_spot_qty
                            * PnlPerNotional
        spot_buy_amount == position.spot_avg_price * close_spot_qty
        spot_sell_amount == spot_price * close_spot_qty
        spot_fees == Fee(spot_buy_amount + spot_sell_amount, SPOT_FEE_RATE)
        spot_pnl == spot_gross_pnl - spot_fees
        futures_gross_pnl == (position.futures_avg_price - futures_price)
                               * Abs(position.futures_qty) * PnlPerNotional
        futures_short_amount == position.futures_avg_price * Abs(position.futures_qty)
        futures_buy_amount == futures_price * Abs(position.futures_qty)
        futures_fees == Fee(futures_short_amount + futures_buy_amount, FUTURES_FEE_RATE)
        futures_pnl == futures_gross_pnl - futures_fees
    IN  spot_pnl + futures_pnl + funding_income

\* funding_rate is the rate calculate_funding_income read, if it was called
ExitCall(symbol, spot_price, futures_price, spot_result, futures_result, funding_rate, ret) ==
    [op |-> "exit", symbol |-> symbol, spot_price |-> spot_price,
     futures_price |-> futures_price, spot_result |-> spot_result,
     futures_result |-> futures_result, funding_rate |-> funding_rate, ret |-> ret]

\* variant: the map is read as it was before the refresh
LedgerRead_stale(local, actual_positions) == local
\* self.get_positions_summary() runs first; self.positions is read after it
LedgerRead(local, actual_positions) == actual_positions

\* variant: the answer to the spot sell is not looked at
SpotSellAccepted_unchecked(spot_result) == TRUE
\* spot_result.get("retCode") != 0 leaves the handler
SpotSellAccepted(spot_result) == spot_result.retCode = 0
\* variant: the answer to the futures buy is not looked at
FuturesBuyAccepted_unchecked(futures_result) == TRUE
\* futures_result.get("retCode") != 0 leaves the handler
FuturesBuyAccepted(futures_result) == futures_result.retCode = 0

\* variant: the futures leg is closed first
ExitOrders_futures_first(symbol, position, spot_precision, futures_precision) ==
    <<PlaceOrderReq(symbol, "Buy", RoundQty(Abs(position.futures_qty), futures_precision),
                    "linear"),
      PlaceOrderReq(symbol, "Sell",
                    RoundQty(Min(position.spot_qty, Abs(position.futures_qty)),
                             spot_precision), "spot")>>

\* the two closing orders, in the order close_position sends them
ExitOrders(symbol, position, spot_precision, futures_precision) ==
    <<PlaceOrderReq(symbol, "Sell", RoundQty(CloseSpotQty(position), spot_precision), "spot"),
      PlaceOrderReq(symbol, "Buy", RoundQty(CloseFuturesQty(position), futures_precision),
                    "linear")>>

\* variant: a record with a spot residual at or above the threshold is kept
CloseLedger_keeps_residual(actual_positions, symbol, closed_position) ==
    LET position == [actual_positions[symbol] EXCEPT
                        !.spot_qty = @ - closed_position.close_spot_qty,
                        !.futures_qty = 0]
        without == [s \in DOMAIN actual_positions \ {symbol} |-> actual_positions[s]]
    IN  IF position.spot_qty < 10 THEN without
        ELSE [actual_positions EXCEPT ![symbol] = position]

\* the ledger after both closing orders were accepted
CloseLedger(actual_positions, symbol, closed_position) ==
    LET position == [actual_positions[symbol] EXCEPT
                        !.spot_qty = @ - closed_position.close_spot_qty,
                        !.futures_qty = 0]
        without == [s \in DOMAIN actual_positions \ {symbol} |-> actual_positions[s]]
    IN  IF position.futures_qty = 0 /\ position.spot_qty < 10 THEN without
        ELSE IF position.futures_qty = 0 THEN without
        ELSE [actual_positions EXCEPT ![symbol] = position]

close_position(symbol, raising) ==
    /\ last = Idle
    /\ Len(closed_positions) < MaxClosed
    /\ \E linear_result \in PositionsResponses(symbol) \cup RaisedAnswers(raising),
          balance_result \in BalanceResponses(symbol) \cup RaisedAnswers(raising) :
        LET actual_positions == get_positions_summary(positions, linear_result,
                                                      balance_result, now)
            ledger == LedgerRead(positions, actual_positions)
            rm0 == [cache |-> rules_cache, ctime |-> cache_time]
            reqs0 == <<PositionsReq, BalanceReq>>
        IN  IF symbol \notin DOMAIN ledger
            THEN Return(ledger, closed_positions, rm0, reqs0,
                        ExitCall(symbol, Nothing, Nothing, NoReply, NoReply, Nothing,
                                 FailedResult("no_position")),
                        actual_positions)
            ELSE
            \E spot_ticker \in PriceResponses \cup RaisedAnswers(raising),
               linear_ticker \in PriceResponses \cup RaisedAnswers(raising) :
              LET position == ledger[symbol]
                  spot_price == get_spot_price(spot_ticker)
                  futures_price == get_futures_price(linear_ticker)
                  reqs1 == reqs0 \o <<TickerReq("spot", symbol), TickerReq("linear", symbol)>>
                  fail(rm, reqs, spot_result, futures_result, message) ==
                      Return(ledger, closed_positions, rm, reqs,
                             ExitCall(symbol, spot_price, futures_price, spot_result,
                                      futures_result, Nothing, FailedResult(message)),
                             actual_positions)
              IN  IF Falsy(spot_price) \/ Falsy(futures_price)
                  THEN fail(rm0, reqs1, NoReply, NoReply, "price_unavailable")
                  ELSE
                  \E info \in InfoInputs(symbol)
                                 \cup {<<r, r>> : r \in RaisedAnswers(raising)} :
                    LET got == get_trading_rules(rules_cache, cache_time, now, symbol,
                                                 FALSE, info[1], info[2])
                        rm == [cache |-> got.cache, ctime |-> got.ctime]
                        tips == get_trading_tips(got.rules, symbol, demo)
                        orders == ExitOrders(symbol, position,
                                             tips.spot_rules.qty_precision,
                                             tips.linear_rules.qty_precision)
                        reqs2 == reqs1 \o got.calls \o <<orders[1]>>
                        reqs3 == reqs2 \o <<orders[2]>>
                        reqs4 == reqs3 \o <<TickerReq("linear", "PERP")>>
                    IN  \E spot_result \in {OrderRejected, OrderAccepted("spot-2")}
                                             \cup RaisedOrders(raising) :
                          IF Raises(spot_result)
                          THEN fail(rm, reqs2, Reply(spot_result), NoReply, "exception")
                          ELSE IF ~SpotSellAccepted(spot_result)
                          THEN fail(rm, reqs2, Reply(spot_result), NoReply,
                                    "spot_sell_failed")
                          ELSE
                          \E futures_result \in {OrderRejected, OrderAccepted("linear-2")}
                                                 \cup RaisedOrders(raising) :
                            IF Raises(futures_result)
                            THEN fail(rm, reqs3, Reply(spot_result), Reply(futures_result),
                                      "exception")
                            ELSE IF ~FuturesBuyAccepted(futures_result)
                            THEN fail(rm, reqs3, Reply(spot_result), Reply(futures_result),
                                      "futures_buy_failed")
                            ELSE
                            \E funding_ticker \in FundingResponses
                                                  \cup RaisedAnswers(raising) :
                              LET close_spot_qty == CloseSpotQty(position)
                                  close_futures_qty == CloseFuturesQty(position)
                                  funding_income ==
                                      calculate_funding_income(
                                          position, get_funding_rate(funding_ticker), now)
                                  total_pnl == TotalPnl(position, close_spot_qty,
                                                        spot_price.v, futures_price.v,
                                                        funding_income)
                                  \* position.spot_qty -= close_spot_qty; position.futures_qty = 0
                                  after == [position EXCEPT
                                              !.spot_qty = @ - close_spot_qty,
                                              !.futures_qty = 0]
                                  closed_position ==
                                      ClosedPosition(symbol, after.spot_qty + close_spot_qty,
                                          after.futures_qty, after.spot_avg_price,
                                          after.futures_avg_price, close_spot_qty,
                                          close_futures_qty, spot_price.v, futures_price.v,
                                          total_pnl, after.entry_time, now, after.leverage,
                                          after.total_investment, after.spot_investment,
                                          after.futures_investment, after.funding_paid)
                              IN  Return(CloseLedger(ledger, symbol, closed_position),
                                         Append(closed_positions, closed_position),
                                         rm, reqs4,
                                         ExitCall(symbol, spot_price, futures_price,
                                             Reply(spot_result), Reply(futures_result),
                                             get_funding_rate(funding_ticker),
                                             TradingResult(TRUE, "closed", NoId, NoId,
                                                 close_spot_qty, close_futures_qty,
                                                 spot_price.v, futures_price.v, 0)),
                                         actual_positions)

\* exit(symbol) answered by well-formed responses
Exit(symbol) == close_position(symbol, FALSE)

-----------------------------------------------------------------------------
(* ArbitrageEngine.get_closed_positions_summary *)

RECURSIVE SumSeq(_, _)
SumSeq(f, seq) ==
    IF seq = <<>> THEN 0 ELSE f[Head(seq)] + SumSeq(f, Tail(seq))

\* P&L units per USDT
PnlPerUSDT == PnlPerNotional * QtyScale
\* sum(pos.total_pnl for pos in closed), as whole USDT and a remainder in P&L
\* units: the sum of several P&L values exceeds the 32-bit integers of TLC
SumPnl(closed) ==
    LET whole == SumSeq([c \in Range(closed) |-> c.total_pnl \div PnlPerUSDT], closed)
        units == SumSeq([c \in Range(closed) |-> c.total_pnl % PnlPerUSDT], closed)
    IN  [usdt |-> whole + units \div PnlPerUSDT, units |-> units % PnlPerUSDT]

\* variant: the summary lists no position
ClosedSummaryOf_without_positions(closed) ==
    [total_closed |-> Len(closed),
     total_pnl |-> SumPnl(closed),
     total_investment |-> SumSeq([c \in Range(closed) |-> c.total_investment], closed),
     positions |-> <<>>]

\* the dictionary get_closed_positions_summary returns
ClosedSummaryOf(closed) ==
    [total_closed |-> Len(closed),
     total_pnl |-> SumPnl(closed),
     total_investment |-> SumSeq([c \in Range(closed) |-> c.total_investment], closed),
     positions |-> closed]

\* closed_summary() called by the dashboard: it reads the history only
ClosedSummary ==
    /\ last = Idle
    /\ Return(positions, closed_positions,
              [cache |-> rules_cache, ctime |-> cache_time], <<>>,
              [op |-> "closed_summary", ret |-> ClosedSummaryOf(closed_positions)],
              NoPositions)

-----------------------------------------------------------------------------
(* ArbitrageEngine.scan_opportunities *)

\* the minimum funding rate of Config, in 1/10000
MIN_FUNDING_RATE == 1
\* risk scores in 1/10000
RiskScale == Pow10(4)
\* the symbol lists the dashboard scans
ScanLists == {<<s>> : s \in Symbols}

ArbitrageOpportunity(symbol, spot_price, futures_price, funding_rate, price_difference, price_difference_percent, potential_profit, risk_score, timestamp) ==
    [symbol |-> symbol, spot_price |-> spot_price, futures_price |-> futures_price,
     funding_rate |-> funding_rate, price_difference |-> price_difference,
     price_difference_percent |-> price_difference_percent,
     potential_profit |-> potential_profit, risk_score |-> risk_score,
     timestamp |-> timestamp]

\* price_diff_percent in 1/10000 of a percent, the result truncated to RiskScale
_calculate_risk_score(price_diff_percent, funding_rate) ==
    LET price_risk == Min(Abs(price_diff_percent) \div 2, RiskScale)
        funding_risk == Max(0, (0 - funding_rate) * (RiskScale \div 100))
    IN  Min((price_risk * 7 + funding_risk * 3) \div 10, RiskScale)

\* Some(opportunity), or Nothing when a price or the rate is missing
calculate_arbitrage_opportunity(symbol, answers, t) ==
    LET spot_price == get_spot_price(answers[1])
        futures_price == get_futures_price(answers[2])
        funding_rate == get_funding_rate(answers[3])
    IN  IF Falsy(spot_price) \/ Falsy(futures_price) \/ ~funding_rate.some
        THEN Nothing
        ELSE LET price_difference == futures_price.v - spot_price.v
                 price_difference_percent ==
                     (price_difference * Pow10(6)) \div spot_price.v
                 daily_funding == funding_rate.v * 3
                 potential_profit == daily_funding * 100
             IN  Some(ArbitrageOpportunity(symbol, spot_price.v, futures_price.v,
                        funding_rate.v, price_difference, price_difference_percent,
                        potential_profit,
                        _calculate_risk_score(price_difference_percent, funding_rate.v),
                        t))

RECURSIVE InsertByProfit(_, _)
\* variant: an opportunity goes before the earlier ones of equal profit
RECURSIVE InsertByProfit_before_ties(_, _)
InsertByProfit_before_ties(sorted, o) ==
    IF sorted = <<>> THEN <<o>>
    ELSE IF Head(sorted).potential_profit > o.potential_profit
         THEN <<Head(sorted)>> \o InsertByProfit_before_ties(Tail(sorted), o)
         ELSE <<o>> \o sorted

\* list.sort(key=potential_profit, reverse=True): stable, largest first
InsertByProfit(sorted, o) ==
    IF sorted = <<>> THEN <<o>>
    ELSE IF Head(sorted).potential_profit >= o.potential_profit
         THEN <<Head(sorted)>> \o InsertByProfit(Tail(sorted), o)
         ELSE <<o>> \o sorted
RECURSIVE SortByProfit(_)
SortByProfit(list) ==
    IF list = <<>> THEN <<>>
    ELSE InsertByProfit(SortByProfit(SubSeq(list, 1, Len(list) - 1)), list[Len(list)])

RECURSIVE KeptOpportunities(_, _, _)
\* the opportunities kept by the loop of scan_opportunities, in input order
KeptOpportunities(symbols, answers, t) ==
    IF symbols = <<>> THEN <<>>
    ELSE LET opportunity == calculate_arbitrage_opportunity(Head(symbols),
                                                            answers[Head(symbols)], t)
             rest == KeptOpportunities(Tail(symbols), answers, t)
         IN  IF opportunity.some /\ opportunity.v.funding_rate > MIN_FUNDING_RATE
             THEN <<opportunity.v>> \o rest
             ELSE rest

scan_opportunities(symbols, answers, t) ==
    SortByProfit(KeptOpportunities(symbols, answers, t))

RECURSIVE ScanRequests(_)
\* the three ticker queries of one symbol
ScanRequests(symbols) ==
    IF symbols = <<>> THEN <<>>
    ELSE <<TickerReq("spot", Head(symbols)), TickerReq("linear", Head(symbols)),
           TickerReq("linear", "PERP")>> \o ScanRequests(Tail(symbols))

\* variant: a scan forgets the live positions
ScanWith_clearing_positions(symbols, answers) ==
    /\ last = Idle
    /\ LET found == scan_opportunities(symbols, answers, now)
       IN  /\ opportunities' = found
           /\ calls' = ScanRequests(symbols)
           /\ last' = [op |-> "scan", symbols |-> symbols, answers |-> answers,
                       ret |-> found]
           /\ refreshed' = NoPositions
           /\ positions' = NoPositions
           /\ UNCHANGED <<closed_positions, rules_cache, cache_time, demo, now>>

\* scan_opportunities(symbols) when the exchange answers the ticker queries
\* of each symbol with answers[symbol] = <<spot, linear, funding>>
ScanWith(symbols, answers) ==
    /\ last = Idle
    /\ LET found == scan_opportunities(symbols, answers, now)
       IN  /\ opportunities' = found
           /\ calls' = ScanRequests(symbols)
           /\ last' = [op |-> "scan", symbols |-> symbols, answers |-> answers,
                       ret |-> found]
           /\ refreshed' = NoPositions
           /\ UNCHANGED <<positions, closed_positions, rules_cache, cache_time,
                          demo, now>>

\* scan(symbols) called by the dashboard
Scan(symbols) ==
    \E answers \in [Range(symbols) ->
                       PriceResponses \X PriceResponses \X FundingResponses] :
        ScanWith(symbols, answers)

-----------------------------------------------------------------------------
(* The caller and the clock *)

\* the caller has taken the result; the next call can start
ReturnToCaller ==
    /\ last /= Idle
    /\ last' = Idle
    /\ calls' = <<>>
    /\ refreshed' = NoPositions
    /\ UNCHANGED <<positions, closed_positions, rules_cache, cache_time, demo, now,
                   opportunities>>

\* time passes between two calls
Advance ==
    /\ last = Idle
    /\ \E t \in TimePoints : t > now /\ now' = t
    /\ UNCHANGED <<positions, closed_positions, rules_cache, cache_time, demo, calls,
                   last, refreshed, opportunities>>

Init ==
    /\ positions = NoPositions
    /\ closed_positions = <<>>
    /\ rules_cache = NoPositions
    /\ cache_time = 0
    /\ demo = FALSE
    /\ now = 0
    /\ calls = <<>>
    /\ last = Idle
    /\ refreshed = NoPositions
    /\ opportunities = <<>>

Next ==
    \/ \E s \in Symbols, total_amount \in Amounts, leverage \in Leverages :
         Enter(s, total_amount, leverage)
    \/ \E s \in Symbols : Exit(s)
    \/ Refresh
    \/ ClosedSummary
    \/ \E symbols \in ScanLists : Scan(symbols)
    \/ ReturnToCaller
    \/ Advance

Spec == Init /\ [][Next]_vars

-----------------------------------------------------------------------------
(* The rules manager called on its own *)

\* symbols, times and orders the manager is asked about
RuleSymbols == {"SOLUSDT", "ETHUSDT"}
RuleTimePoints == {0, 2000, 4000}
Categories == {"spot", "linear"}
\* <<qty, price>>: around the quantity and notional limits of the default rules
OrderInputs ==
    {<<0, 100>>, <<5, 100>>, <<10, 100>>, <<10, 5000>>, <<15, 5000>>, <<490, 100>>,
     <<500, 100>>, <<1000 * QtyScale, 100>>, <<1000 * QtyScale, 101>>,
     <<1000 * QtyScale + 10, 1>>}

\* the metadata answers get_trading_rules consumes: none when the cache answers
RuleInfoInputs(symbol, force_refresh) ==
    IF ~force_refresh /\ _is_cache_valid(cache_time, now) /\ symbol \in DOMAIN rules_cache
    THEN {<<Failed, Failed>>}
    ELSE SpotInfoResponses \X LinearInfoResponses

\* TradingRulesManager.get_trading_rules(symbol, force_refresh)
GetRules(symbol, force_refresh) ==
    /\ last = Idle
    /\ \E info \in RuleInfoInputs(symbol, force_refresh) :
         LET got == get_trading_rules(rules_cache, cache_time, now, symbol,
                                      force_refresh, info[1], info[2])
         IN  Return(positions, closed_positions,
                    [cache |-> got.cache, ctime |-> got.ctime], got.calls,
                    [op |-> "get_rules", symbol |-> symbol,
                     force_refresh |-> force_refresh, spot_info |-> info[1],
                     linear_info |-> info[2], ret |-> got.rules],
                    NoPositions)

\* TradingRulesManager.validate_order_params(symbol, qty, price, category)
ValidateOrder(symbol, qty, price, category) ==
    /\ last = Idle
    /\ \E info \in RuleInfoInputs(symbol, FALSE) :
         LET got == get_trading_rules(rules_cache, cache_time, now, symbol, FALSE,
                                      info[1], info[2])
             rule == IF category = "spot" THEN got.rules.spot ELSE got.rules.linear
         IN  Return(positions, closed_positions,
                    [cache |-> got.cache, ctime |-> got.ctime], got.calls,
                    [op |-> "validate", symbol |-> symbol, category |-> category,
                     qty |-> qty, price |-> price, spot_info |-> info[1],
                     linear_info |-> info[2], rule |-> rule,
                     ret |-> validate_order_params(rule, qty, price)],
                    NoPositions)

\* time passes between two calls of the manager
Tick ==
    /\ last = Idle
    /\ \E t \in RuleTimePoints : t > now /\ now' = t
    /\ UNCHANGED <<positions, closed_positions, rules_cache, cache_time, demo, calls,
                   last, refreshed, opportunities>>

RulesNext ==
    \/ \E s \in RuleSymbols, force_refresh \in BOOLEAN : GetRules(s, force_refresh)
    \/ \E s \in RuleSymbols, order \in OrderInputs, category \in Categories :
         ValidateOrder(s, order[1], order[2], category)
    \/ ReturnToCaller
    \/ Tick

RulesSpec == Init /\ [][RulesNext]_vars

-----------------------------------------------------------------------------
(* Enter, exit and scan against an exchange whose answers may also raise *)

FaultNext ==
    \/ \E s \in Symbols, total_amount \in Amounts, leverage \in Leverages :
         one_click_arbitrage(s, total_amount, leverage, TRUE)
    \/ \E s \in Symbols : close_position(s, TRUE)
    \/ \E symbols \in ScanLists : Scan(symbols)
    \/ ReturnToCaller
    \/ Advance

FaultSpec == Init /\ [][FaultNext]_vars

-----------------------------------------------------------------------------
(* Scans of several symbols *)

ScanSymbols == {"BTCUSDT", "ETHUSDT", "SOLUSDT"}
\* every order of the three symbols
ScanOrders ==
    {l \in [1 .. 3 -> ScanSymbols] : \A i, j \in 1 .. 3 : l[i] = l[j] => i = j}
\* funding rates in 1/10000: negative, at the threshold and above it
ScanRates == {-2, 1, 3, 5}
\* the ticker answers for one symbol: one of the three unavailable, or all
\* three available with one of the rates
ScanAnswers ==
    LET price == Ok(<<Ticker(100, Nothing)>>)
        rate(r) == Ok(<<Ticker(100, Some(r))>>)
    IN  {<<Failed, price, rate(3)>>, <<price, Failed, rate(3)>>, <<price, price, Failed>>,
         <<price, price, price>>}
        \cup {<<price, price, rate(r)>> : r \in ScanRates}

ScanNext ==
    \/ \E symbols \in ScanOrders, answers \in [ScanSymbols -> ScanAnswers] :
         ScanWith(symbols, answers)
    \/ ReturnToCaller
    \/ Advance

ScanSpec == Init /\ [][ScanNext]_vars

-----------------------------------------------------------------------------
(* calculate_capital_allocation in floating point *)

\* A Python float is a binary floating-point number m * 2^e whose mantissa has
\* a fixed number of bits, every operation rounding to the nearest one, ties
\* to the even mantissa.  The model keeps MantissaBits bits (Python keeps 53).
MantissaBits == 5
Exponents == -1 .. 2
AllocationLeverages == 1 .. 5

RECURSIVE Pow2(_)
Pow2(n) == IF n = 0 THEN 1 ELSE 2 * Pow2(n - 1)

Float(m, e) == [m |-> m, e |-> e]
Floats == {Float(m, e) : m \in Pow2(MantissaBits - 1) .. Pow2(MantissaBits) - 1,
                         e \in Exponents}
\* the value of a float as the fraction Num / Den
Num(x) == x.m * Pow2(Max(x.e, 0))
Den(x) == Pow2(Max(0 - x.e, 0))

\* the float nearest to n / (d * 2^(-e)) for n, d > 0
RECURSIVE Nearest(_, _, _)
Nearest(n, d, e) ==
    IF n >= d * Pow2(MantissaBits) THEN Nearest(n, 2 * d, e + 1)
    ELSE IF n < d * Pow2(MantissaBits - 1) THEN Nearest(2 * n, d, e - 1)
    ELSE LET m == PyRound(n, d)
         IN  IF m = Pow2(MantissaBits) THEN Float(Pow2(MantissaBits - 1), e + 1)
             ELSE Float(m, e)
\* x / k, x * k and x + y as Python computes them
FloatDiv(x, k) == Nearest(Num(x), Den(x) * k, 0)
FloatMul(x, k) == Nearest(Num(x) * k, Den(x), 0)
FloatAdd(x, y) == Nearest(Num(x) * Den(y) + Num(y) * Den(x), Den(x) * Den(y), 0)

\* variant: the spot leg takes the share leverage / (leverage + 1) of the total
float_capital_allocation_by_ratio(total_amount, leverage) ==
    LET spot_amount == FloatDiv(FloatMul(total_amount, leverage), leverage + 1)
        futures_amount == FloatDiv(spot_amount, leverage)
    IN  <<spot_amount, futures_amount>>

\* calculate_capital_allocation on floats
float_capital_allocation(total_amount, leverage) ==
    LET spot_amount == FloatDiv(total_amount, 2)
        futures_amount == FloatDiv(spot_amount, leverage)
    IN  <<spot_amount, futures_amount>>

\* the arguments of one call of calculate_capital_allocation
AllocationInit ==
    /\ positions = NoPositions
    /\ closed_positions = <<>>
    /\ rules_cache = NoPositions
    /\ cache_time = 0
    /\ demo = FALSE
    /\ now = 0
    /\ calls = <<>>
    /\ refreshed = NoPositions
    /\ opportunities = <<>>
    /\ last \in {[op |-> "allocation_args", total_amount |-> t, leverage |-> l] :
                    t \in Floats, l \in AllocationLeverages}

\* calculate_capital_allocation(total_amount, leverage)
Allocate ==
    /\ last.op = "allocation_args"
    /\ last' = [op |-> "allocation", total_amount |-> last.total_amount,
                leverage |-> last.leverage,
                ret |-> float_capital_allocation(last.total_amount, last.leverage)]
    /\ UNCHANGED <<positions, closed_positions, rules_cache, cache_time, demo, now,
                   calls, refreshed, opportunities>>

AllocationSpec == AllocationInit /\ [][Allocate]_vars

-----------------------------------------------------------------------------
(* Entries with amounts at and above the minimum investment *)

\* total amounts in cents, from the minimum investment of the modelled rules up
EntryAmounts == {600, 1000, 2532}
EntryLeverages == {1, 2}

EntryNext ==
    \/ \E s \in Symbols, total_amount \in EntryAmounts, leverage \in EntryLeverages :
         Enter(s, total_amount, leverage)
    \/ ReturnToCaller

EntrySpec == Init /\ [][EntryNext]_vars

-----------------------------------------------------------------------------
(* Reading the record of the last call *)

OrderCalls == {i \in DOMAIN calls : calls[i].api = "place_order"}
OrdersOf(category, side) ==
    {i \in OrderCalls : calls[i].category = category /\ calls[i].side = side}
SpotBuys == OrdersOf("spot", "Buy")
SpotSells == OrdersOf("spot", "Sell")
FuturesSells == OrdersOf("linear", "Sell")
FuturesBuys == OrdersOf("linear", "Buy")
LeverageCalls == {i \in DOMAIN calls : calls[i].api = "set_leverage"}
CancelCalls == {i \in DOMAIN calls : calls[i].api = "cancel_order"}
QueryApis == {"get_instruments_info", "get_tickers"}

EnterReturned == last.op = "enter"
ExitReturned == last.op = "exit"
\* the rules and tips the last enter worked with
EnterRules == rules_cache[last.symbol]
EnterTips == get_trading_tips(EnterRules, last.symbol, demo)
\* the quantities the last enter computed from the prices it read
EnterSpotQty ==
    QuantizedQty(calculate_capital_allocation(last.total_amount, last.leverage)[1],
                 last.spot_price.v, EnterTips.spot_rules.qty_step,
                 EnterTips.spot_rules.qty_precision)
EnterFuturesQty ==
    QuantizedQty(calculate_capital_allocation(last.total_amount, last.leverage)[2],
                 last.futures_price.v, EnterTips.linear_rules.qty_step,
                 EnterTips.linear_rules.qty_precision)

LeverageOutOfRange ==
    last.leverage < 1 \/ last.leverage > EnterTips.linear_rules.max_leverage
AmountBelowMinimum == last.total_amount < EnterTips.min_investment
PriceUnavailable == Falsy(last.spot_price) \/ Falsy(last.futures_price)
QuantityInvalid == EnterSpotQty <= 0 \/ EnterFuturesQty <= 0
OrderInvalid ==
    \/ ~validate_order_params(EnterRules.spot, EnterSpotQty, last.spot_price.v).ok
    \/ ~validate_order_params(EnterRules.linear, EnterFuturesQty, last.futures_price.v).ok
\* some pre-check of the last enter does not pass (evaluated in the order of
\* the checks: a later one is defined only when the earlier ones pass)
PreCheckFails ==
    \/ LeverageOutOfRange
    \/ AmountBelowMinimum
    \/ PriceUnavailable
    \/ QuantityInvalid
    \/ OrderInvalid

SpotOrderAccepted == last.spot_result.sent /\ last.spot_result.retCode = 0
SpotOrderRejected == last.spot_result.sent /\ last.spot_result.retCode /= 0
FuturesOrderAccepted == last.futures_result.sent /\ last.futures_result.retCode = 0
FuturesOrderRejected == last.futures_result.sent /\ last.futures_result.retCode /= 0

-----------------------------------------------------------------------------
(* Entry *)

\* C1: in every enter the futures sell is requested only after the spot buy
\* was answered with success, set_leverage is requested after the spot buy
\* and before the futures sell, and no order of either leg is requested
\* unless every pre-check has passed.
C1_EntryOrderSequence ==
    EnterReturned =>
        /\ \A i \in FuturesSells :
              /\ SpotOrderAccepted
              /\ \E j \in SpotBuys : \E k \in LeverageCalls : j < k /\ k < i
        /\ \A k \in LeverageCalls :
              /\ \E j \in SpotBuys : j < k
              /\ \E i \in FuturesSells : k < i
        /\ OrderCalls /= {} => ~PreCheckFails

C1_Witness ==
    /\ EnterReturned
    /\ last.ret.success
    /\ SpotBuys /= {} /\ LeverageCalls /= {} /\ FuturesSells /= {}

\* the futures leg was rejected after the spot leg was accepted
FuturesLegFailed == EnterReturned /\ SpotOrderAccepted /\ FuturesOrderRejected
\* one request per leg, and the handler reports the failure
NoRetryAndFailure ==
    /\ Cardinality(SpotBuys) = 1
    /\ Cardinality(FuturesSells) = 1
    /\ Cardinality(OrderCalls) = 2
    /\ ~last.ret.success
OneCancelOfSpotOrder ==
    /\ Cardinality(CancelCalls) = 1
    /\ \A i \in CancelCalls :
          /\ calls[i].orderId = last.spot_result.orderId
          /\ calls[i].symbol = last.symbol
          /\ calls[i].category = "spot"

\* C2 as stated: when the spot buy succeeded and the futures sell returns an
\* error, exactly one cancel_order for the spot order id is requested, no
\* order is retried, the result is a failure and no Position is stored.
C2_ExactlyOneCancel ==
    [][FuturesLegFailed' =>
          (OneCancelOfSpotOrder /\ NoRetryAndFailure)' /\ positions' = positions]_vars

\* C2 amended: when the spot buy succeeded and the futures sell returns an
\* error, one cancel_order for the spot order id is requested if the spot
\* answer carried an order id and none if it carried no id; in both cases no
\* order is retried, the result is a failure and the live map is unchanged.
C2_CancelWhenIdKnown ==
    [][FuturesLegFailed' =>
          /\ (IF last.spot_result.orderId /= NoId
              THEN OneCancelOfSpotOrder
              ELSE CancelCalls = {})'
          /\ NoRetryAndFailure'
          /\ positions' = positions]_vars

C2_Witness ==
    /\ FuturesLegFailed
    /\ last.spot_result.orderId /= NoId
    /\ CancelCalls /= {}

\* C3: after every successful enter with equal spot and futures prices the
\* spot and futures quantities are equal up to one quantity step, whatever
\* the leverage.
C3_QuantityMatched ==
    (/\ EnterReturned
     /\ last.ret.success
     /\ last.spot_price = last.futures_price
     /\ EnterRules.spot.qty_step = EnterRules.linear.qty_step)
    => Abs(last.ret.spot_qty - last.ret.futures_qty) <= EnterRules.spot.qty_step

\* C4: every Position stored by a successful enter records the short futures
\* leg as a negative futures_qty.
C4_ShortStoredNegative ==
    (EnterReturned /\ last.ret.success) => positions[last.symbol].futures_qty < 0

RejectedOnArguments == EnterReturned /\ (LeverageOutOfRange \/ AmountBelowMinimum)
RejectedOnQuantity ==
    /\ EnterReturned
    /\ ~LeverageOutOfRange /\ ~AmountBelowMinimum /\ ~PriceUnavailable
    /\ QuantityInvalid

\* C6 as stated: an enter rejected for leverage out of range, amount below
\* the minimum or an invalid computed quantity has issued no request at all.
C6_NoRequestOnRejection ==
    (RejectedOnArguments \/ RejectedOnQuantity) => calls = <<>>

\* C6 amended: an enter rejected for leverage out of range or amount below
\* the minimum has issued nothing but instrument-metadata queries, one
\* rejected for an invalid computed quantity nothing but metadata and price
\* queries; in no case an order, a set_leverage or a cancel_order.
C6_OnlyQueriesOnRejection ==
    /\ RejectedOnArguments =>
          /\ ~last.ret.success
          /\ \A i \in DOMAIN calls : calls[i].api = "get_instruments_info"
    /\ RejectedOnQuantity =>
          /\ ~last.ret.success
          /\ \A i \in DOMAIN calls : calls[i].api \in QueryApis

C6_Witness ==
    /\ RejectedOnQuantity
    /\ \E i \in DOMAIN calls : calls[i].api = "get_instruments_info"
    /\ \E i \in DOMAIN calls : calls[i].api = "get_tickers"

-----------------------------------------------------------------------------
(* Exit *)

\* C7: every exit refreshes the ledger before it reads the live map; an exit
\* of a symbol that has no position after the refresh fails without placing
\* an order.
C7_RefreshBeforeRead ==
    ExitReturned =>
        /\ Len(calls) >= 2 /\ calls[1] = PositionsReq /\ calls[2] = BalanceReq
        /\ last.symbol \notin DOMAIN refreshed =>
              /\ ~last.ret.success
              /\ Len(calls) = 2
              /\ positions = refreshed
        /\ last.symbol \in DOMAIN refreshed => Len(calls) > 2

C7_Witness ==
    /\ ExitReturned
    /\ last.symbol \notin DOMAIN refreshed
    /\ ~last.ret.success

\* C8: in every exit the futures quantity bought back equals
\* |position.futures_qty|, the spot quantity sold equals
\* min(position.spot_qty, |position.futures_qty|) and never exceeds the spot
\* quantity held in the refreshed position.
C8_CloseQuantities ==
    (ExitReturned /\ last.symbol \in DOMAIN refreshed) =>
        LET position == refreshed[last.symbol]
        IN  /\ \A i \in FuturesBuys : calls[i].qty = Abs(position.futures_qty)
            /\ \A i \in SpotSells :
                  /\ calls[i].qty = Min(position.spot_qty, Abs(position.futures_qty))
                  /\ calls[i].qty <= position.spot_qty

\* C9: the exit requests the futures buy only after the spot sell succeeded;
\* when the spot sell returns an error the exit fails with no futures order
\* requested, the Position present as refreshed and nothing appended to the
\* history.
C9_SpotSellFailure ==
    [][ExitReturned' =>
          /\ (\A i \in FuturesBuys : SpotOrderAccepted /\ \E j \in SpotSells : j < i)'
          /\ (ExitReturned /\ SpotOrderRejected)' =>
                /\ ~last'.ret.success
                /\ FuturesBuys' = {}
                /\ Cardinality(OrderCalls') = 1
                /\ CancelCalls' = {}
                /\ last'.symbol \in DOMAIN positions'
                /\ positions' = refreshed'
                /\ closed_positions' = closed_positions]_vars

C9_Witness == ExitReturned /\ SpotOrderRejected /\ SpotSells /= {}

\* C10: when the spot sell succeeded and the futures buy returns an error the
\* exit fails, requests nothing after the futures buy, appends nothing to
\* the history and leaves the Position in the live map as refreshed.
C10_FuturesBuyFailure ==
    [][(ExitReturned /\ SpotOrderAccepted /\ FuturesOrderRejected)' =>
          /\ ~last'.ret.success
          /\ Cardinality(SpotSells') = 1
          /\ Cardinality(FuturesBuys') = 1
          /\ Cardinality(OrderCalls') = 2
          /\ CancelCalls' = {}
          /\ Len(calls') \in FuturesBuys'
          /\ last'.symbol \in DOMAIN positions'
          /\ positions' = refreshed'
          /\ closed_positions' = closed_positions]_vars

C10_Witness == ExitReturned /\ SpotOrderAccepted /\ FuturesOrderRejected

-----------------------------------------------------------------------------
(* The closed history *)

ExitSucceeded == ExitReturned /\ last.ret.success
\* the snapshot the last successful exit appended
LastClosed == closed_positions[Len(closed_positions)]
\* the spot quantity left after the sell of the last successful exit
SpotResidual == refreshed[last.symbol].spot_qty - last.ret.spot_qty
\* 0.001 coin, the residual threshold of close_position
ResidualThreshold == QtyScale \div Pow10(3)

\* C11: after every successful exit the symbol is absent from the live map,
\* whatever spot residual remains, and exactly one ClosedPosition of the
\* symbol has been appended to the history.
C11_ClosedAndRemoved ==
    [][ExitSucceeded' =>
          /\ last'.symbol \notin DOMAIN positions'
          /\ Len(closed_positions') = Len(closed_positions) + 1
          /\ SubSeq(closed_positions', 1, Len(closed_positions)) = closed_positions
          /\ LastClosed'.symbol = last'.symbol]_vars

C11_Witness ==
    /\ ExitSucceeded
    /\ SpotResidual >= ResidualThreshold
    /\ last.symbol \notin DOMAIN positions

\* C12: the ClosedPosition appended by a successful exit records the
\* position as it was before the close: the spot quantity held before the
\* sell, the futures quantity held before the cover, and the entry prices,
\* entry time, leverage and investment amounts of the Position.
C12_SnapshotOfOriginal ==
    ExitSucceeded =>
        LET position == refreshed[last.symbol]
        IN  /\ LastClosed.spot_qty = position.spot_qty
            /\ LastClosed.futures_qty = position.futures_qty
            /\ LastClosed.spot_avg_price = position.spot_avg_price
            /\ LastClosed.futures_avg_price = position.futures_avg_price
            /\ LastClosed.entry_time = position.entry_time
            /\ LastClosed.leverage = position.leverage
            /\ LastClosed.total_investment = position.total_investment
            /\ LastClosed.spot_investment = position.spot_investment
            /\ LastClosed.futures_investment = position.futures_investment

\* a handler other than exit has returned
OtherHandlerReturned ==
    last.op \in {"enter", "positions_summary", "closed_summary", "scan"}

-----------------------------------------------------------------------------
(* The P&L of a close *)

\* 0.1% and 0.055% of a notional, in P&L units
SpotFeeOf(notional) == notional * (PnlPerNotional \div 1000)
FuturesFeeOf(notional) == notional * ((PnlPerNotional * 55) \div 100000)
\* the fees of a closed position: entry plus exit notional of the quantity closed
SpotFeesOf(c) ==
    SpotFeeOf(c.spot_avg_price * c.close_spot_qty + c.close_spot_price * c.close_spot_qty)
FuturesFeesOf(c) ==
    FuturesFeeOf(c.futures_avg_price * c.close_futures_qty
                   + c.close_futures_price * c.close_futures_qty)
\* the P&L of the two legs of a closed position, fees included
LegPnlOf(c) ==
    ((c.close_spot_price - c.spot_avg_price) * c.close_spot_qty * PnlPerNotional
        - SpotFeesOf(c))
    + ((c.futures_avg_price - c.close_futures_price) * c.close_futures_qty * PnlPerNotional
        - FuturesFeesOf(c))

\* the exit that returns in the next state closes, unchanged, what an enter opened
RoundTrip ==
    /\ ExitSucceeded'
    /\ last'.symbol \in DOMAIN positions
    /\ LET entered == positions[last'.symbol]
           position == refreshed'[last'.symbol]
       IN  /\ entered.total_investment > 0
           /\ Abs(position.futures_qty) = Abs(entered.futures_qty)
           /\ position.futures_avg_price = entered.futures_avg_price
           /\ last'.spot_price.v = entered.spot_avg_price
           /\ last'.futures_price.v = entered.futures_avg_price
           /\ now' - entered.entry_time < FundingPeriod

\* C14: a successful enter followed by a successful exit of the symbol, with
\* both prices unchanged, the exchange reporting the futures size and
\* average price entered and fewer than 8 hours elapsed, records
\* total_pnl = -(spot_fees + futures_fees), spot_fees being 0.1% of the entry
\* plus exit spot notional and futures_fees 0.055% of the entry plus exit
\* futures notional.
C14_RoundTripLosesFees ==
    [][RoundTrip =>
          LastClosed'.total_pnl = 0 - (SpotFeesOf(LastClosed') + FuturesFeesOf(LastClosed'))]_vars

C14_Witness ==
    /\ ExitSucceeded
    /\ LastClosed.total_investment > 0
    /\ LastClosed.close_time = LastClosed.entry_time
    /\ LastClosed.close_spot_price = LastClosed.spot_avg_price
    /\ LastClosed.close_futures_price = LastClosed.futures_avg_price
    /\ LastClosed.close_futures_qty = last.ret.futures_qty
    /\ last.funding_rate.some
    /\ LastClosed.total_pnl < 0

\* funding settlements between the entry and the close of a closed position
HoldingPeriods(c) == (c.close_time - c.entry_time) \div FundingPeriod
\* the funding income the last exit is to add, from the position before the close
ExpectedFundingIncome ==
    LET position == refreshed[last.symbol]
        funding_periods == HoldingPeriods(LastClosed)
    IN  IF ~last.funding_rate.some \/ funding_periods = 0 THEN 0
        ELSE Abs(position.futures_qty) * position.futures_avg_price
                * last.funding_rate.v * funding_periods * (PnlPerNotional \div Pow10(4))

\* C15: the funding income of a close is 0 when no whole 8-hour period has
\* elapsed or the funding rate cannot be fetched, and otherwise
\* |futures_qty| * futures_avg_price * rate * floor(holding_hours / 8) with the
\* futures quantity held before the close zeroed it; total_pnl is the P&L of
\* the two legs plus this income.
C15_FundingIncome ==
    ExitSucceeded => LastClosed.total_pnl = LegPnlOf(LastClosed) + ExpectedFundingIncome

C15_Witness ==
    /\ ExitSucceeded
    /\ last.funding_rate.some
    /\ HoldingPeriods(LastClosed) >= 1
    /\ refreshed[last.symbol].futures_qty /= 0
    /\ LastClosed.total_pnl > LegPnlOf(LastClosed)

-----------------------------------------------------------------------------
(* The reconciliation of the ledger *)

RefreshReturned == last.op = "positions_summary"
\* the entries of the futures-position list of the last refresh about a symbol
ReportedFor(symbol) ==
    {i \in DOMAIN last.linear_result.list : last.linear_result.list[i].symbol = symbol}
\* the signed futures size the last refresh was told for a symbol, 0 when the
\* exchange listed no open position of it
ReportedSignedSize(symbol) ==
    IF ReportedFor(symbol) = {} THEN 0
    ELSE LET position_data ==
                 last.linear_result.list[CHOOSE i \in ReportedFor(symbol) :
                                             \A j \in ReportedFor(symbol) : j <= i]
         IN  IF position_data.side = "Buy" THEN position_data.size
             ELSE 0 - position_data.size

\* C16: after every refresh whose futures-position query was answered, every
\* position of the live map holds as futures quantity the signed size the
\* exchange reported for its symbol in this refresh, 0 when it reported no
\* open position.
C16_ExchangeFuturesWin ==
    (RefreshReturned /\ last.linear_result.retCode = 0) =>
        \A s \in DOMAIN positions : positions[s].futures_qty = ReportedSignedSize(s)

\* the entries the futures-position query of a refresh listed (none when it failed)
ListedPositions(linear_result) ==
    IF linear_result.retCode = 0 THEN Range(linear_result.list) ELSE {}
\* the positive balance of the base asset of a symbol a refresh was told, else 0
PositiveBalance(balance_result, symbol) ==
    LET reported == IF balance_result.retCode = 0
                    THEN {c \in Range(balance_result.list) :
                            /\ c.coin /= "USDT"
                            /\ c.coin = BaseCoin(symbol)
                            /\ c.walletBalance > 0}
                    ELSE {}
    IN  IF reported = {} THEN 0 ELSE (CHOOSE c \in reported : TRUE).walletBalance

\* C17: a refresh adopts every futures position of nonzero size the exchange
\* lists and the ledger does not hold: the new Position has futures quantity
\* +size for side Buy and -size otherwise, and spot quantity 0 unless the
\* wallet reports a positive balance of the base asset, which it then takes.
\* Listed positions of size 0 and the USDT balance create no live entry.
C17_AdoptsExchangePositions ==
    [][RefreshReturned' =>
          /\ \A position_data \in ListedPositions(last'.linear_result) :
                (position_data.size /= 0 /\ position_data.symbol \notin DOMAIN positions)
                => /\ position_data.symbol \in DOMAIN positions'
                   /\ positions'[position_data.symbol].futures_qty =
                         (IF position_data.side = "Buy" THEN position_data.size
                          ELSE 0 - position_data.size)
                   /\ positions'[position_data.symbol].spot_qty =
                         PositiveBalance(last'.balance_result, position_data.symbol)
          /\ \A s \in DOMAIN positions' \ DOMAIN positions :
                \E position_data \in ListedPositions(last'.linear_result) :
                    position_data.symbol = s /\ position_data.size /= 0]_vars

C17_Witness ==
    /\ RefreshReturned
    /\ \E position_data \in ListedPositions(last.linear_result) :
          /\ position_data.side = "Sell"
          /\ position_data.size > 0
          /\ position_data.symbol \in DOMAIN positions
          /\ LET pos == positions[position_data.symbol]
             IN  /\ pos.total_investment = 0
                 /\ pos.entry_time = now
                 /\ pos.futures_qty = 0 - position_data.size
                 /\ pos.spot_qty = PositiveBalance(last.balance_result, position_data.symbol)
                 /\ pos.spot_qty > 0

-----------------------------------------------------------------------------
(* The summaries *)

SummaryReturned == last.op \in {"positions_summary", "closed_summary"}
ClosedSummaryReturned == last.op = "closed_summary"
\* the last handler began by querying the futures positions and the wallet
ReconciledFirst ==
    /\ Len(calls) >= 2
    /\ calls[1] = PositionsReq
    /\ calls[2] = BalanceReq

\* C18 as stated: every read-only summary operation (positions_summary and
\* closed_summary) reconciles the ledger against the exchange before it
\* computes its result.
C18_EverySummaryReconciles ==
    SummaryReturned => ReconciledFirst

\* C18 amended: positions_summary reconciles the ledger first and summarises
\* the reconciled map; closed_summary sends no request and summarises the
\* closed history as it stands.
C18_PositionsSummaryReconciles ==
    /\ RefreshReturned =>
          /\ ReconciledFirst
          /\ positions = refreshed
          /\ last.ret.positions = refreshed
    /\ ClosedSummaryReturned =>
          /\ calls = <<>>
          /\ last.ret.total_closed = Len(closed_positions)
          /\ last.ret.positions = closed_positions

C18_Witness ==
    /\ ClosedSummaryReturned
    /\ calls = <<>>
    /\ last.ret.total_closed >= 1
    /\ positions /= NoPositions

-----------------------------------------------------------------------------
(* The rules cache *)

GetRulesReturned == last.op = "get_rules"
ValidateReturned == last.op = "validate"
\* the last call of the manager queried the metadata of both markets
MetadataQueried ==
    calls = <<InfoReq("spot", last.symbol), InfoReq("linear", last.symbol)>>

\* C19: the rules cache has a one-hour time-to-live per symbol: a rule set
\* get_rules returns without force_refresh was obtained fewer than 3600
\* seconds before the call, and with force_refresh the metadata queries are
\* always issued again.
C19_RulesYoungerThanTTL ==
    GetRulesReturned =>
        /\ ~last.force_refresh => now - last.ret.last_updated < 3600
        /\ last.force_refresh => MetadataQueried

\* the default rule set, as the specification lists it
IsDefaultRuleSet(rule) ==
    /\ rule.min_order_qty = QtyScale \div 1000
    /\ rule.qty_step = QtyScale \div 1000
    /\ rule.min_order_amt = 5 * CentsPerUSDT
    /\ rule.qty_precision = 3
    /\ rule.price_precision = 2
    /\ rule.max_leverage = 5
\* the rule set read from an instrument of the spot or the linear market
IsSpotRuleSetOf(rule, instrument) ==
    /\ rule.min_order_qty = DecToQty(instrument.minOrderQty)
    /\ rule.qty_step = DecToQty(instrument.basePrecision)
    /\ rule.min_order_amt = DecToCents(instrument.minOrderAmt)
IsLinearRuleSetOf(rule, instrument) ==
    /\ rule.min_order_qty = DecToQty(instrument.minOrderQty)
    /\ rule.qty_step = DecToQty(instrument.qtyStep)
    /\ rule.min_order_amt = DecToCents(instrument.minNotionalValue)
    /\ rule.max_leverage = instrument.maxLeverage
\* an order the default rule set is to accept: a multiple of 0.001 in
\* [0.001, 1000] whose notional lies in [5, 100000] USDT
WithinDefaultLimits(qty, price) ==
    /\ qty % (QtyScale \div 1000) = 0
    /\ qty >= QtyScale \div 1000
    /\ qty <= 1000 * QtyScale
    /\ qty * price >= 5 * QtyScale
    /\ qty * price <= 100000 * QtyScale

\* C20: get_rules always returns a rule set: a market whose metadata query
\* answers an error or an empty list, or raises, gets the default rules (min
\* qty 0.001, step 0.001, min notional 5, qty precision 3, price precision 2,
\* max leverage 5) while the other market keeps the rules fetched for it; and
\* validate_order against the default rules accepts every quantity that is a
\* multiple of 0.001 in [0.001, 1000] with a notional in [5, 100000].
C20_DefaultRulesOnFailure ==
    /\ (GetRulesReturned /\ MetadataQueried) =>
          /\ IF HasList(last.spot_info)
             THEN IsSpotRuleSetOf(last.ret.spot, last.spot_info.list[1])
             ELSE IsDefaultRuleSet(last.ret.spot)
          /\ IF HasList(last.linear_info)
             THEN IsLinearRuleSetOf(last.ret.linear, last.linear_info.list[1])
             ELSE IsDefaultRuleSet(last.ret.linear)
          /\ rules_cache[last.symbol] = last.ret
    /\ (ValidateReturned /\ IsDefaultRuleSet(last.rule)
           /\ WithinDefaultLimits(last.qty, last.price)) => last.ret.ok

C20_Witness ==
    /\ ValidateReturned
    /\ MetadataQueried
    /\ last.spot_info = Raised
    /\ HasList(last.linear_info)
    /\ last.category = "spot"
    /\ IsDefaultRuleSet(last.rule)
    /\ IsLinearRuleSetOf(rules_cache[last.symbol].linear, last.linear_info.list[1])
    /\ ~IsDefaultRuleSet(rules_cache[last.symbol].linear)
    /\ last.qty = 1000 * QtyScale
    /\ last.qty * last.price = 100000 * QtyScale
    /\ last.ret.ok

-----------------------------------------------------------------------------
(* The minimum investment *)

\* the allocation of the last enter: the amount of the spot order and the
\* notional the futures order is sized to, in cents
EnterAllocation == calculate_capital_allocation(last.total_amount, last.leverage)
\* the last enter passed the checks of its arguments
ArgumentsAccepted == EnterReturned /\ ~LeverageOutOfRange /\ ~AmountBelowMinimum

\* C21: the minimum investment is sufficient for both legs: whenever the
\* leverage is at least 1 and the total amount at least
\* min_investment(symbol, leverage), the allocation gives the spot leg an
\* amount of at least the spot min_order_amt and the futures leg a notional of
\* at least the linear min_order_amt.
C21_MinInvestmentSuffices ==
    ArgumentsAccepted =>
        /\ EnterAllocation[1] >= EnterRules.spot.min_order_amt
        /\ EnterAllocation[2] >= EnterRules.linear.min_order_amt

-----------------------------------------------------------------------------
(* The order of the checks of validate_order *)

\* the five checks of the last validate_order in the order of the
\* specification, each with the reason it reports
OrderChecks ==
    LET rule == last.rule
        notional == last.qty * last.price
    IN  << [holds |-> last.qty >= rule.min_order_qty, reason |-> "qty_below_min"],
           [holds |-> last.qty <= rule.max_order_qty, reason |-> "qty_above_max"],
           [holds |-> last.qty % rule.qty_step = 0, reason |-> "qty_not_step_multiple"],
           [holds |-> notional >= rule.min_order_amt * CentsPerUSDT,
            reason |-> "amount_below_min"],
           [holds |-> notional <= rule.max_order_amt * CentsPerUSDT,
            reason |-> "amount_above_max"] >>
FailingChecks == {i \in DOMAIN OrderChecks : ~OrderChecks[i].holds}
FirstFailingCheck == CHOOSE i \in FailingChecks : \A j \in FailingChecks : i <= j

\* C22: validate_order makes its checks in the order qty >= min_order_qty,
\* qty <= max_order_qty, qty multiple of qty_step, notional >= min_order_amt,
\* notional <= max_order_amt and returns false with the reason of the first
\* one that fails; it returns true exactly when all five hold.
C22_FirstFailingCheck ==
    ValidateReturned =>
        /\ last.ret.ok <=> FailingChecks = {}
        /\ ~last.ret.ok => last.ret.reason = OrderChecks[FirstFailingCheck].reason

C22_Witness ==
    /\ ValidateReturned
    /\ Cardinality(FailingChecks) >= 2
    /\ 4 \in FailingChecks
    /\ FirstFailingCheck = 3
    /\ last.ret = OrderBad("qty_not_step_multiple")

-----------------------------------------------------------------------------
(* The capital allocation *)

AllocationReturned == last.op = "allocation"
\* spot_amount + futures_margin * leverage, as Python evaluates it
AllocatedTotal == FloatAdd(last.ret[1], FloatMul(last.ret[2], last.leverage))
\* spot_amount is total_amount / 2 without rounding
SpotIsHalf ==
    /\ last.ret[1].m = last.total_amount.m
    /\ last.ret[1].e = last.total_amount.e - 1
\* the distance of two floats is at most gap / scale
WithinGap(x, y, gap, scale) ==
    Abs(Num(x) * Den(y) - Num(y) * Den(x)) * scale <= gap * Den(x) * Den(y)
\* the spacing of the floats around x is UlpNum(x) / UlpDen(x)
UlpNum(x) == Pow2(Max(x.e, 0))
UlpDen(x) == Pow2(Max(0 - x.e, 0))

\* C23 as stated: calculate_capital_allocation(T, L) returns spot_amount and
\* futures_margin with spot_amount == T / 2 and
\* spot_amount + futures_margin * L == T for every T > 0 and integer L >= 1.
C23_AllocationIdentity ==
    AllocationReturned => SpotIsHalf /\ AllocatedTotal = last.total_amount

\* C23 amended: spot_amount is T / 2 exactly, and
\* spot_amount + futures_margin * L differs from T by at most one unit in the
\* last place of T; it equals T when L is a power of two.
C23_AllocationWithinRounding ==
    AllocationReturned =>
        /\ SpotIsHalf
        /\ WithinGap(AllocatedTotal, last.total_amount,
                     UlpNum(last.total_amount), UlpDen(last.total_amount))
        /\ last.leverage \in {1, 2, 4} => AllocatedTotal = last.total_amount

C23_Witness ==
    /\ AllocationReturned
    /\ last.leverage = 5
    /\ SpotIsHalf
    /\ AllocatedTotal /= last.total_amount

-----------------------------------------------------------------------------
(* The scan *)

ScanReturned == last.op = "scan"
\* the answers the last scan got for a symbol
AnswersFor(symbol) == last.answers[symbol]
\* the funding rate the last scan was told for a symbol
RateFor(symbol) == AnswersFor(symbol)[3].list[1].fundingRate.v
\* spot price, futures price and funding rate of a symbol were all available
\* to the last scan and the rate is above the minimum threshold of 0.0001
Qualifies(symbol) ==
    /\ AnswersFor(symbol)[1].retCode = 0 /\ AnswersFor(symbol)[1].list /= <<>>
    /\ AnswersFor(symbol)[2].retCode = 0 /\ AnswersFor(symbol)[2].list /= <<>>
    /\ AnswersFor(symbol)[3].retCode = 0 /\ AnswersFor(symbol)[3].list /= <<>>
    /\ AnswersFor(symbol)[3].list[1].fundingRate.some
    /\ RateFor(symbol) > 1
\* the place of a symbol in the list the last scan was given
InputIndex(symbol) == CHOOSE i \in DOMAIN last.symbols : last.symbols[i] = symbol
\* an opportunity list without its timestamps
WithoutTimestamps(list) == [i \in DOMAIN list |-> [list[i] EXCEPT !.timestamp = 0]]

\* C24: scan(symbols) returns exactly the symbols whose spot price, futures
\* price and funding rate are all available and whose funding rate is
\* strictly above the minimum threshold, each once, ordered by projected
\* profit descending with ties in input order; a symbol whose data is
\* unavailable is skipped and the others are still returned; the list depends
\* on the symbols and the answers only, not on the time of the scan.
C24_ScanResult ==
    ScanReturned =>
        /\ {last.ret[i].symbol : i \in DOMAIN last.ret}
             = {s \in Range(last.symbols) : Qualifies(s)}
        /\ \A i, j \in DOMAIN last.ret :
              i < j =>
                \/ last.ret[i].potential_profit > last.ret[j].potential_profit
                \/ /\ last.ret[i].potential_profit = last.ret[j].potential_profit
                   /\ InputIndex(last.ret[i].symbol) < InputIndex(last.ret[j].symbol)
        /\ \A i \in DOMAIN last.ret :
              /\ last.ret[i].funding_rate = RateFor(last.ret[i].symbol)
              /\ last.ret[i].potential_profit = 300 * RateFor(last.ret[i].symbol)
        /\ \A t \in TimePoints :
              WithoutTimestamps(scan_opportunities(last.symbols, last.answers, t))
                = WithoutTimestamps(last.ret)
        /\ opportunities = last.ret

C24_Witness ==
    /\ ScanReturned
    /\ Len(last.symbols) = 3
    /\ Len(last.ret) = 2
    /\ last.ret[1].potential_profit = last.ret[2].potential_profit
    /\ last.ret[1].symbol = last.symbols[2]
    /\ last.ret[2].symbol = last.symbols[3]
    /\ AnswersFor(last.symbols[1])[1] = Failed
    /\ now > 0

-----------------------------------------------------------------------------
(* Failing and raising answers *)

EnterOrExitReturned == EnterReturned \/ ExitReturned
\* the call asked for the instrument metadata and was left with the default
\* rules: the metadata queries failed or raised
MetadataFailed ==
    /\ \E i \in DOMAIN calls : calls[i] = InfoReq("spot", last.symbol)
    /\ rules_cache[last.symbol].spot = _get_default_rules
    /\ rules_cache[last.symbol].linear = _get_default_rules
    /\ _get_spot_rules(Ok(<<SpotInstrument>>)) /= _get_default_rules
PriceFailed ==
    \/ last.spot_price = Nothing /\ \E i \in DOMAIN calls : calls[i] = TickerReq("spot", last.symbol)
    \/ last.futures_price = Nothing /\ \E i \in DOMAIN calls : calls[i] = TickerReq("linear", last.symbol)
OrderFailed ==
    \/ last.spot_result.sent /\ last.spot_result.retCode /= 0
    \/ last.futures_result.sent /\ last.futures_result.retCode /= 0
IsTradingResult(ret) ==
    /\ DOMAIN ret = {"success", "message", "spot_order_id", "futures_order_id",
                     "spot_qty", "futures_qty", "spot_price", "futures_price",
                     "total_cost"}
    /\ ret.success \in BOOLEAN
    /\ ret.message /= ""

\* C25 as stated: whenever an exchange response of an enter or exit (metadata,
\* prices or orders) failed or raised, the call returned success = false.
C25_AnyFailureFails ==
    EnterOrExitReturned /\ (MetadataFailed \/ PriceFailed \/ OrderFailed) =>
        ~last.ret.success

\* C25: enter and exit always end with a TradingResult carrying a message,
\* whatever the exchange answered or raised; the result has success = false
\* whenever a price was unavailable or an order was rejected or raised, and
\* success = true only when both prices were read and both orders accepted
\* (failed metadata queries fall back to the default rules and do not fail
\* the call).
C25_AlwaysATradingResult ==
    EnterOrExitReturned =>
        /\ IsTradingResult(last.ret)
        /\ PriceFailed \/ OrderFailed => ~last.ret.success
        /\ last.ret.success =>
              /\ last.spot_price.some /\ last.futures_price.some
              /\ last.spot_result.sent /\ last.spot_result.retCode = 0
              /\ last.futures_result.sent /\ last.futures_result.retCode = 0

C25_Witness ==
    /\ ExitReturned
    /\ last.spot_result.retCode = 0
    /\ Raises(last.futures_result)
    /\ ~last.ret.success
    /\ last.ret.message = "exception"

-----------------------------------------------------------------------------
(* A refresh whose queries fail *)

\* C26: when the futures-position query or the wallet-balance query of a
\* refresh returns an error, every position that was in the live map before
\* the refresh is still in the live map after it.
C26_FailedRefreshKeepsPositions ==
    [][(/\ last'.op = "positions_summary"
        /\ \/ last'.linear_result.retCode /= 0
           \/ last'.balance_result.retCode /= 0)
       => DOMAIN positions \subseteq DOMAIN positions']_vars

-----------------------------------------------------------------------------
(* The side of the closing futures order *)

\* the futures orders among the requests of the last call
FuturesOrdersSent ==
    {i \in DOMAIN calls : calls[i].api = "place_order" /\ calls[i].category = "linear"}

\* C27: the futures order an exit places reduces the position: its side is
\* Buy when the refreshed futures quantity is negative (a short) and Sell
\* when it is positive (a long).
C27_ExitReducesFutures ==
    ExitReturned /\ last.futures_result.sent =>
        \A i \in FuturesOrdersSent :
            calls[i].side = IF refreshed[last.symbol].futures_qty < 0 THEN "Buy" ELSE "Sell"

-----------------------------------------------------------------------------
(* A second enter on a symbol *)

\* C28: a successful enter on a symbol that already has a live position does
\* not lose the earlier holding: right after it the live record's spot and
\* futures quantities are those held before plus those just entered.
C28_SecondEnterAccumulates ==
    [][(/\ last'.op = "enter"
        /\ last'.ret.success
        /\ last'.symbol \in DOMAIN positions)
       => /\ positions'[last'.symbol].spot_qty
               = positions[last'.symbol].spot_qty + last'.ret.spot_qty
          /\ Abs(positions'[last'.symbol].futures_qty)
               = Abs(positions[last'.symbol].futures_qty) + last'.ret.futures_qty]_vars

-----------------------------------------------------------------------------
(* What a failed enter and a scan leave alone *)

\* C29: an enter that returns success = false, on any path (rejected
\* arguments, unavailable price, rejected order, exception), leaves the live
\* map and the closed history as they were; so does every scan.
C29_FailedEnterAndScanKeepLedger ==
    [][(\/ last'.op = "enter" /\ ~last'.ret.success
        \/ last'.op = "scan")
       => positions' = positions /\ closed_positions' = closed_positions]_vars

C29_Witness ==
    /\ EnterReturned
    /\ ~last.ret.success
    /\ last.spot_result.sent /\ last.spot_result.retCode = 0
    /\ Raises(last.futures_result)
    /\ positions /= NoPositions
    /\ closed_positions /= <<>>

-----------------------------------------------------------------------------
(* Refreshing twice *)

\* C30: a refresh is idempotent on the ledger: running it again on the map it
\* produced, with the same answers to the futures-position and wallet-balance
\* queries, at the same or a later time, yields that same map (symbols,
\* quantities, average prices, unrealized P&L and entry times).
C30_RefreshIdempotent ==
    RefreshReturned =>
        \A t \in TimePoints :
            t >= now =>
                get_positions_summary(positions, last.linear_result,
                                      last.balance_result, t) = positions

\* a refresh, with a later time to come, that kept a record of an enter and
\* filled it from the answers
C30_Witness ==
    /\ RefreshReturned
    /\ now < 28800
    /\ \E s \in DOMAIN positions :
          /\ positions[s].futures_qty /= 0
          /\ positions[s].spot_qty > 0
          /\ positions[s].total_investment > 0

=============================================================================
